---- MODULE Spec2Model ----
(***************************************************************************)
(* XTState (src/src/lib.rs): a table of named boolean slots, a history of  *)
(* every slot update, the once-only setup guard and the derived            *)
(* `activated` flag.                                                       *)
(*                                                                         *)
(* The struct's methods are modelled as operators on a record `self` that  *)
(* holds the four fields; every operator returns the struct after the call *)
(* together with the way the call ended: "Ok", or the panic that unwound   *)
(* it.  A panic leaves the struct as it was at the panicking line.         *)
(***************************************************************************)
EXTENDS Integers, Sequences, FiniteSets, TLC

\* The identifiers callers use (type Identifier = String, lib.rs:50).
Identifiers == {"a", "b", "z"}

\* The threads that hold a clone of the Arc<Mutex<XTState>> (lib.rs:48).
Threads == {"t1", "t2"}

\* The value of `lock` when no thread holds the MutexGuard.
NoThread == "none"

\* Bounds of the exploration.
MaxHistory == 2
MaxClock == 1
MaxFairHistory == 1

VARIABLES
    slots,      \* XTState.slots: HashMap<Identifier, bool>
    history,    \* XTState.history: Vec<(Identifier, bool, i64)>
    is_setup,   \* XTState.is_setup
    activated,  \* XTState.activated
    call,       \* the most recent call made on the instance, with its arguments
    result,     \* how that call ended: "Ok" or the panic it raised
    pre,        \* the struct as it was when that call was entered
    only_true_updates,
                \* every call so far was the first setup_slots(S, false) or an
                \* update_callback(id, true)
    n_ok,       \* update_callback calls that returned since the last setup_slots
                \* call that returned
    lock,       \* the thread that holds the MutexGuard, or NoThread
    poisoned,   \* the Mutex is poisoned: a thread panicked while holding the guard
    pc,         \* where each thread is: "idle", "waiting" in lock(), "entered",
                \* "pushed", "written" inside a call, "returned" from it with
                \* the guard still held, or "panicked"
    acquired,   \* <<identifier, value>> of the update_callback calls that took
                \* the lock since the last setup_slots call that returned, in
                \* the order they took it, less those that panicked
    registered, \* the set passed to the last setup_slots call that returned,
                \* empty before any
    clock,      \* what the last read of the wall clock returned (lib.rs:104)
    clock_monotone
                \* no read of the wall clock has returned less than the read
                \* before it

vars == <<slots, history, is_setup, activated, call, result, pre, only_true_updates,
          n_ok, lock, poisoned, pc, acquired, registered, clock, clock_monotone>>

\* The wall clock as the reads of it have shown it.
clock_vars == <<clock, clock_monotone>>

\* The fields of the struct.
xt_vars == <<slots, history, is_setup, activated>>

\* The Mutex and the threads around it.
shared_vars == <<lock, poisoned, pc, acquired>>

\* An empty HashMap.
EmptyMap == [k \in {} |-> FALSE]

\* The struct behind the variables.
Self == [slots |-> slots, history |-> history,
         is_setup |-> is_setup, activated |-> activated]

\* XTState::new (lib.rs:60-67).
new == [slots |-> EmptyMap, history |-> <<>>, is_setup |-> FALSE, activated |-> FALSE]

\* The loop `for slot in slots { self.slots.insert(slot, false) }` (lib.rs:79-81).
InsertAll(map, S) == [x \in DOMAIN map \cup S |-> IF x \in S THEN FALSE ELSE map[x]]

\* setup_slots that marks the instance set up (lib.rs:82) only when it did
\* not reset it.
setup_slots_unset(self, S, force) ==
    IF ~force /\ self.is_setup
    THEN [xt |-> self, result |-> "AlreadySetup"]
    ELSE IF force /\ self.is_setup
    THEN [xt |-> [self EXCEPT !.is_setup = FALSE, !.activated = FALSE,
                              !.history = <<>>, !.slots = InsertAll(EmptyMap, S)],
          result |-> "Ok"]
    ELSE [xt |-> [self EXCEPT !.slots = InsertAll(self.slots, S), !.is_setup = TRUE],
          result |-> "Ok"]

\* setup_slots that refuses an empty set when it is called, instead of
\* leaving the failure to the first update.
setup_slots_rejects_empty(self, S, force) ==
    IF ~force /\ self.is_setup
    THEN [xt |-> self, result |-> "AlreadySetup"]
    ELSE IF S = {}
    THEN [xt |-> self, result |-> "NoSlotsDefined"]
    ELSE LET cleared == IF force /\ self.is_setup
                        THEN [self EXCEPT !.is_setup = FALSE, !.activated = FALSE,
                                          !.history = <<>>, !.slots = EmptyMap]
                        ELSE self
         IN  [xt |-> [cleared EXCEPT !.slots = InsertAll(cleared.slots, S),
                                     !.is_setup = TRUE],
              result |-> "Ok"]

\* setup_slots whose forced reset leaves out self.history.clear() (lib.rs:76).
setup_slots_keeps_history(self, S, force) ==
    IF ~force /\ self.is_setup
    THEN [xt |-> self, result |-> "AlreadySetup"]
    ELSE LET cleared == IF force /\ self.is_setup
                        THEN [self EXCEPT !.is_setup = FALSE, !.activated = FALSE,
                                          !.slots = EmptyMap]
                        ELSE self
         IN  [xt |-> [cleared EXCEPT !.slots = InsertAll(cleared.slots, S),
                                     !.is_setup = TRUE],
              result |-> "Ok"]

\* setup_slots without the guard of lib.rs:70-72.
setup_slots_no_guard(self, S, force) ==
    LET cleared == IF force /\ self.is_setup
                   THEN [self EXCEPT !.is_setup = FALSE, !.activated = FALSE,
                                     !.history = <<>>, !.slots = EmptyMap]
                   ELSE self
    IN  [xt |-> [cleared EXCEPT !.slots = InsertAll(cleared.slots, S),
                                !.is_setup = TRUE],
         result |-> "Ok"]

\* setup_slots whose forced reset leaves out self.slots.clear() (lib.rs:77).
setup_slots_merge(self, S, force) ==
    IF ~force /\ self.is_setup
    THEN [xt |-> self, result |-> "AlreadySetup"]
    ELSE LET cleared == IF force /\ self.is_setup
                        THEN [self EXCEPT !.is_setup = FALSE, !.activated = FALSE,
                                          !.history = <<>>]
                        ELSE self
         IN  [xt |-> [cleared EXCEPT !.slots = InsertAll(cleared.slots, S),
                                     !.is_setup = TRUE],
              result |-> "Ok"]

\* XTState::setup_slots (lib.rs:69-83).
setup_slots(self, S, force) ==
    IF ~force /\ self.is_setup
    THEN [xt |-> self, result |-> "AlreadySetup"]
    ELSE LET cleared == IF force /\ self.is_setup
                        THEN [self EXCEPT !.is_setup = FALSE, !.activated = FALSE,
                                          !.history = <<>>, !.slots = EmptyMap]
                        ELSE self
         IN  [xt |-> [cleared EXCEPT !.slots = InsertAll(cleared.slots, S),
                                     !.is_setup = TRUE],
              result |-> "Ok"]

\* can_activate with any() in place of all() at lib.rs:93.
can_activate_any(self) ==
    IF ~self.is_setup THEN [result |-> "NotSetup", value |-> FALSE]
    ELSE IF DOMAIN self.slots = {} THEN [result |-> "NoSlotsDefined", value |-> FALSE]
    ELSE [result |-> "Ok", value |-> \E k \in DOMAIN self.slots : self.slots[k]]

\* XTState::can_activate (lib.rs:85-94): the panic it raises, or the AND of
\* all slot values.
can_activate(self) ==
    IF ~self.is_setup THEN [result |-> "NotSetup", value |-> FALSE]
    ELSE IF DOMAIN self.slots = {} THEN [result |-> "NoSlotsDefined", value |-> FALSE]
    ELSE [result |-> "Ok", value |-> \A k \in DOMAIN self.slots : self.slots[k]]

\* A history that keeps one entry for each identifier: the push replaces
\* the identifier's earlier entry.
push_history_dedup(self, identifier, value, epoch) ==
    [self EXCEPT !.history = SelectSeq(self.history, LAMBDA e : e[1] # identifier)
                                 \o <<<<identifier, value, epoch>>>>]

\* history.insert(0, ..) in place of history.push(..) at lib.rs:106.
push_history_front(self, identifier, value, epoch) ==
    [self EXCEPT !.history = <<<<identifier, value, epoch>>>> \o self.history]

\* self.history.push((identifier.clone(), value, epoch)) (lib.rs:106).
push_history(self, identifier, value, epoch) ==
    [self EXCEPT !.history = Append(self.history, <<identifier, value, epoch>>)]

\* The guards without the contains_key test of lib.rs:100-102.
check_guards_no_contains(self, identifier) ==
    IF ~self.is_setup THEN "NotSetup" ELSE "Ok"

\* The guards of update_callback (lib.rs:97-102): the panic raised, or "Ok".
check_guards(self, identifier) ==
    IF ~self.is_setup THEN "NotSetup"
    ELSE IF identifier \notin DOMAIN self.slots THEN "UnknownIdentifier"
    ELSE "Ok"

\* A slot write through values_mut(): every slot takes the value.
write_slot_all(self, identifier, value) ==
    IF identifier \notin DOMAIN self.slots
    THEN [xt |-> self, result |-> "SlotNotFound"]
    ELSE [xt |-> [self EXCEPT !.slots = [k \in DOMAIN self.slots |-> value]],
          result |-> "Ok"]

\* The slot write through get_mut (lib.rs:108-112).
write_slot(self, identifier, value) ==
    IF identifier \notin DOMAIN self.slots
    THEN [xt |-> self, result |-> "SlotNotFound"]
    ELSE [xt |-> [self EXCEPT !.slots[identifier] = value], result |-> "Ok"]

\* The recomputation of `activated` (lib.rs:114-118).
recompute(self) ==
    LET can == can_activate(self)
    IN  IF can.result # "Ok"
        THEN [xt |-> self, result |-> can.result]
        ELSE [xt |-> [self EXCEPT !.activated = can.value], result |-> "Ok"]

\* lib.rs:108-118 on the struct whose history already holds the new entry.
write_and_recompute(pushed, identifier, value) ==
    LET w == write_slot(pushed, identifier, value)
    IN  IF w.result # "Ok" THEN w ELSE recompute(w.xt)

\* update_callback whose lib.rs:116-118 else branch is missing: the flag is
\* raised and never lowered.
update_callback_sticky(self, identifier, value, epoch) ==
    IF ~self.is_setup
    THEN [xt |-> self, result |-> "NotSetup"]
    ELSE IF identifier \notin DOMAIN self.slots
    THEN [xt |-> self, result |-> "UnknownIdentifier"]
    ELSE LET r == write_and_recompute(push_history(self, identifier, value, epoch),
                                      identifier, value)
         IN  IF r.result = "Ok" /\ ~r.xt.activated
             THEN [r EXCEPT !.xt.activated = self.activated]
             ELSE r

\* update_callback without the contains_key guard of lib.rs:100-102.
update_callback_no_contains(self, identifier, value, epoch) ==
    IF ~self.is_setup
    THEN [xt |-> self, result |-> "NotSetup"]
    ELSE write_and_recompute(push_history(self, identifier, value, epoch),
                             identifier, value)

\* update_callback that tests for an empty table before the contains_key guard.
update_callback_empty_first(self, identifier, value, epoch) ==
    IF ~self.is_setup
    THEN [xt |-> self, result |-> "NotSetup"]
    ELSE IF DOMAIN self.slots = {}
    THEN [xt |-> self, result |-> "NoSlotsDefined"]
    ELSE IF identifier \notin DOMAIN self.slots
    THEN [xt |-> self, result |-> "UnknownIdentifier"]
    ELSE write_and_recompute(push_history(self, identifier, value, epoch),
                             identifier, value)

\* update_callback that sets an unset instance up instead of panicking at
\* lib.rs:97-99.
update_callback_auto_init(self, identifier, value, epoch) ==
    LET xt == [self EXCEPT !.is_setup = TRUE]
    IN  IF identifier \notin DOMAIN xt.slots
        THEN [xt |-> xt, result |-> "UnknownIdentifier"]
        ELSE write_and_recompute(push_history(xt, identifier, value, epoch),
                                 identifier, value)

\* update_callback that pushes the history entry before its guards.
update_callback_push_first(self, identifier, value, epoch) ==
    LET pushed == push_history(self, identifier, value, epoch)
    IN  IF ~self.is_setup
        THEN [xt |-> pushed, result |-> "NotSetup"]
        ELSE IF identifier \notin DOMAIN self.slots
        THEN [xt |-> pushed, result |-> "UnknownIdentifier"]
        ELSE write_and_recompute(pushed, identifier, value)

\* update_callback that returns early when the slot already holds the value.
update_callback_skip_same(self, identifier, value, epoch) ==
    IF ~self.is_setup
    THEN [xt |-> self, result |-> "NotSetup"]
    ELSE IF identifier \notin DOMAIN self.slots
    THEN [xt |-> self, result |-> "UnknownIdentifier"]
    ELSE IF self.slots[identifier] = value
    THEN [xt |-> self, result |-> "Ok"]
    ELSE write_and_recompute(push_history(self, identifier, value, epoch),
                             identifier, value)

\* XTState::update_callback (lib.rs:96-119); epoch is what
\* chrono::Utc::now().timestamp_millis() returned at lib.rs:104.
update_callback(self, identifier, value, epoch) ==
    LET guard == check_guards(self, identifier)
    IN  IF guard # "Ok"
        THEN [xt |-> self, result |-> guard]
        ELSE write_and_recompute(push_history(self, identifier, value, epoch),
                                 identifier, value)

\* A reading taken before the caller holds the lock: the clock itself still
\* runs forward, but a reading may be older than one already appended.
ReadClock_before_lock(epoch) ==
    /\ clock' = IF epoch > clock THEN epoch ELSE clock
    /\ UNCHANGED clock_monotone

\* chrono::Utc::now().timestamp() at lib.rs:104, evaluated inside
\* update_callback after both guards: the wall clock shows epoch.
ReadClock(epoch) ==
    /\ clock' = epoch
    /\ clock_monotone' = (clock_monotone /\ epoch >= clock)

Init ==
    /\ slots = new.slots
    /\ history = new.history
    /\ is_setup = new.is_setup
    /\ activated = new.activated
    /\ call = [op |-> "new"]
    /\ result = "Ok"
    /\ pre = new
    /\ only_true_updates = TRUE
    /\ n_ok = 0
    /\ lock = NoThread
    /\ poisoned = FALSE
    /\ pc = [t \in Threads |-> "idle"]
    /\ acquired = <<>>
    /\ registered = {}
    /\ clock = 0
    /\ clock_monotone = TRUE

\* The struct becomes r.xt and the caller sees r.result.
Return(r) ==
    /\ slots' = r.xt.slots
    /\ history' = r.xt.history
    /\ is_setup' = r.xt.is_setup
    /\ activated' = r.xt.activated
    /\ result' = r.result
    /\ pre' = Self

\* A caller that owns the instance calls setup_slots(S, force).
SetupSlots ==
    \E S \in SUBSET Identifiers, force \in BOOLEAN :
        /\ Return(setup_slots(Self, S, force))
        /\ call' = [op |-> "setup_slots", slots |-> S, force |-> force]
        /\ only_true_updates' = (only_true_updates /\ ~force /\ ~is_setup)
        /\ n_ok' = IF result' = "Ok" THEN 0 ELSE n_ok
        /\ registered' = IF result' = "Ok" THEN S ELSE registered
        /\ UNCHANGED shared_vars
        /\ UNCHANGED clock_vars

\* A caller that owns the instance calls update_callback(identifier, value);
\* the clock read returns any epoch.
UpdateCallback ==
    \E identifier \in Identifiers, value \in BOOLEAN, epoch \in 0..MaxClock :
        /\ Len(history) < MaxHistory
        /\ Return(update_callback(Self, identifier, value, epoch))
        /\ call' = [op |-> "update_callback", identifier |-> identifier,
                    value |-> value]
        /\ only_true_updates' = (only_true_updates /\ value)
        /\ n_ok' = IF result' = "Ok" THEN n_ok + 1 ELSE n_ok
        /\ IF check_guards(Self, identifier) = "Ok"
           THEN ReadClock(epoch)
           ELSE UNCHANGED clock_vars
        /\ UNCHANGED <<shared_vars, registered>>

Next == SetupSlots \/ UpdateCallback

Spec == Init /\ [][Next]_vars

(***************************************************************************)
(* The shared handle, ThreadSafeXTState = Arc<Mutex<XTState>> (lib.rs:48), *)
(* used as in tests::test_threadsafe_xtstate: a thread calls               *)
(* state.lock().unwrap(), makes one call on the guard and drops the guard. *)
(* A panic unwinds the thread; a guard dropped while unwinding poisons the *)
(* Mutex.  A call on the guard proceeds line by line.                      *)
(***************************************************************************)

\* The struct becomes xt; the call goes on.
Store(xt) ==
    /\ slots' = xt.slots
    /\ history' = xt.history
    /\ is_setup' = xt.is_setup
    /\ activated' = xt.activated

\* A panic under a lock that does not poison: the guard is dropped as on a
\* return.
Panic_no_poison(t, res) ==
    /\ result' = res
    /\ pc' = [pc EXCEPT ![t] = "panicked"]
    /\ poisoned' = poisoned
    /\ lock' = NoThread

\* A panic that unwinds without dropping the guard: the Mutex stays locked.
Panic_keeps_lock(t, res) ==
    /\ result' = res
    /\ pc' = [pc EXCEPT ![t] = "panicked"]
    /\ poisoned' = TRUE
    /\ lock' = lock

\* Thread t panics with `res` while it holds the guard: the unwinding drops
\* the guard, which poisons and unlocks the Mutex.
Panic(t, res) ==
    /\ result' = res
    /\ pc' = [pc EXCEPT ![t] = "panicked"]
    /\ poisoned' = TRUE
    /\ lock' = NoThread

\* Thread t calls state.lock() (lib.rs:151, 157, 165).
Request(t) ==
    /\ pc[t] = "idle"
    /\ pc' = [pc EXCEPT ![t] = "waiting"]
    /\ UNCHANGED <<xt_vars, call, result, pre, only_true_updates, n_ok, registered, lock, poisoned,
                   acquired>>
    /\ UNCHANGED clock_vars

\* lock() returns the guard to t, which enters setup_slots(S, force)
\* (lib.rs:151-152).
AcquireForSetup(t) ==
    \E S \in SUBSET Identifiers, force \in BOOLEAN :
        /\ pc[t] = "waiting" /\ lock = NoThread /\ ~poisoned
        /\ lock' = t
        /\ pc' = [pc EXCEPT ![t] = "entered"]
        /\ call' = [op |-> "setup_slots", slots |-> S, force |-> force]
        /\ result' = "Running"
        /\ pre' = Self
        /\ only_true_updates' = (only_true_updates /\ ~force /\ ~is_setup)
        /\ UNCHANGED <<xt_vars, n_ok, registered, poisoned, acquired>>
        /\ UNCHANGED clock_vars

\* AcquireForUpdate on a lock that excludes nobody: the guard is handed out
\* while another thread holds it.
AcquireForUpdate_no_exclusion(t) ==
    \E identifier \in Identifiers, value \in BOOLEAN :
        /\ pc[t] = "waiting" /\ ~poisoned
        /\ Len(history) < MaxHistory
        /\ lock' = t
        /\ pc' = [pc EXCEPT ![t] = "entered"]
        /\ call' = [op |-> "update_callback", identifier |-> identifier,
                    value |-> value]
        /\ result' = "Running"
        /\ pre' = Self
        /\ only_true_updates' = (only_true_updates /\ value)
        /\ acquired' = Append(acquired, <<identifier, value>>)
        /\ UNCHANGED <<xt_vars, n_ok, registered, poisoned>>
        /\ UNCHANGED clock_vars

\* lock() returns the guard to t, which enters update_callback(identifier,
\* value) (lib.rs:157-158, 165-166).
AcquireForUpdate(t) ==
    \E identifier \in Identifiers, value \in BOOLEAN :
        /\ pc[t] = "waiting" /\ lock = NoThread /\ ~poisoned
        /\ Len(history) < MaxHistory
        /\ lock' = t
        /\ pc' = [pc EXCEPT ![t] = "entered"]
        /\ call' = [op |-> "update_callback", identifier |-> identifier,
                    value |-> value]
        /\ result' = "Running"
        /\ pre' = Self
        /\ only_true_updates' = (only_true_updates /\ value)
        /\ acquired' = Append(acquired, <<identifier, value>>)
        /\ UNCHANGED <<xt_vars, n_ok, registered, poisoned>>
        /\ UNCHANGED clock_vars

\* lock() on a poisoned Mutex returns Err(PoisonError) and unwrap() panics;
\* the guard inside the error is dropped again.
AcquirePoisoned(t) ==
    /\ pc[t] = "waiting" /\ lock = NoThread /\ poisoned
    /\ pc' = [pc EXCEPT ![t] = "panicked"]
    /\ result' = "PoisonError"
    /\ UNCHANGED <<xt_vars, call, pre, only_true_updates, n_ok, registered, lock, poisoned,
                   acquired>>
    /\ UNCHANGED clock_vars

\* t runs setup_slots on the guard (lib.rs:69-83).
RunSetup(t) ==
    /\ pc[t] = "entered" /\ lock = t /\ call.op = "setup_slots"
    /\ LET r == setup_slots(Self, call.slots, call.force)
       IN  /\ Store(r.xt)
           /\ IF r.result = "Ok"
              THEN /\ result' = "Ok"
                   /\ n_ok' = 0
                   /\ acquired' = <<>>
                   /\ registered' = call.slots
                   /\ pc' = [pc EXCEPT ![t] = "returned"]
                   /\ UNCHANGED <<lock, poisoned>>
              ELSE /\ Panic(t, r.result)
                   /\ UNCHANGED <<n_ok, registered, acquired>>
    /\ UNCHANGED <<call, pre, only_true_updates>>
    /\ UNCHANGED clock_vars

\* t passes the guards of update_callback, reads the clock and pushes the
\* history entry (lib.rs:97-106), or panics at a guard.
UpdateEnter(t) ==
    \E epoch \in 0..MaxClock :
        /\ pc[t] = "entered" /\ lock = t /\ call.op = "update_callback"
        /\ LET guard == check_guards(Self, call.identifier)
           IN  IF guard = "Ok"
               THEN /\ Store(push_history(Self, call.identifier, call.value, epoch))
                    /\ pc' = [pc EXCEPT ![t] = "pushed"]
                    /\ ReadClock(epoch)
                    /\ UNCHANGED <<result, lock, poisoned, acquired>>
               ELSE /\ Panic(t, guard)
                    /\ acquired' = SubSeq(acquired, 1, Len(acquired) - 1)
                    /\ UNCHANGED <<xt_vars, clock_vars>>
        /\ UNCHANGED <<call, pre, only_true_updates, n_ok, registered>>

\* t writes the slot (lib.rs:108-112).
UpdateWrite(t) ==
    /\ pc[t] = "pushed" /\ lock = t
    /\ LET w == write_slot(Self, call.identifier, call.value)
       IN  /\ Store(w.xt)
           /\ IF w.result = "Ok"
              THEN /\ pc' = [pc EXCEPT ![t] = "written"]
                   /\ UNCHANGED <<result, lock, poisoned>>
              ELSE Panic(t, w.result)
    /\ UNCHANGED <<call, pre, only_true_updates, n_ok, registered, acquired>>
    /\ UNCHANGED clock_vars

\* t recomputes `activated` and returns (lib.rs:114-119).
UpdateRecompute(t) ==
    /\ pc[t] = "written" /\ lock = t
    /\ LET r == recompute(Self)
       IN  /\ Store(r.xt)
           /\ IF r.result = "Ok"
              THEN /\ result' = "Ok"
                   /\ n_ok' = n_ok + 1
                   /\ pc' = [pc EXCEPT ![t] = "returned"]
                   /\ UNCHANGED <<lock, poisoned>>
              ELSE /\ Panic(t, r.result)
                   /\ UNCHANGED n_ok
    /\ UNCHANGED <<call, pre, only_true_updates, acquired, registered>>
    /\ UNCHANGED clock_vars

\* t drops the guard at the end of its scope (lib.rs:153, 159, 167).
Release(t) ==
    /\ pc[t] = "returned" /\ lock = t
    /\ lock' = NoThread
    /\ pc' = [pc EXCEPT ![t] = "idle"]
    /\ UNCHANGED <<xt_vars, call, result, pre, only_true_updates, n_ok, registered, poisoned,
                   acquired>>
    /\ UNCHANGED clock_vars

NextShared ==
    \E t \in Threads :
        \/ Request(t)
        \/ AcquireForSetup(t)
        \/ AcquireForUpdate(t)
        \/ AcquirePoisoned(t)
        \/ RunSetup(t)
        \/ UpdateEnter(t)
        \/ UpdateWrite(t)
        \/ UpdateRecompute(t)
        \/ Release(t)

SpecShared == Init /\ [][NextShared]_vars

\* lock() returns to t: with the guard, or with the PoisonError.
Acquire(t) == AcquireForSetup(t) \/ AcquireForUpdate(t) \/ AcquirePoisoned(t)

\* t, holding the guard, runs on to the end of the guard's scope.
Proceed(t) ==
    RunSetup(t) \/ UpdateEnter(t) \/ UpdateWrite(t) \/ UpdateRecompute(t) \/ Release(t)

\* The runs the liveness check explores: histories of at most MaxFairHistory
\* entries and a clock that stands still.  Neither plays a part in locking.
FairStep ==
    /\ (\E t \in Threads : pc[t] = "waiting" /\ pc'[t] = "entered"
                           /\ call'.op = "update_callback")
           => Len(history) < MaxFairHistory
    /\ \A i \in 1..Len(history') : history'[i][3] = 0

\* Fair scheduling: a thread that holds the guard keeps running, and a thread
\* blocked in lock() gets the Mutex if it is free again and again.
\* The steps of NextShared that keep within FairStep.
NextSharedFair ==
    \E t \in Threads :
        \/ Request(t) /\ FairStep
        \/ AcquireForSetup(t) /\ FairStep
        \/ AcquireForUpdate(t) /\ FairStep
        \/ AcquirePoisoned(t) /\ FairStep
        \/ RunSetup(t) /\ FairStep
        \/ UpdateEnter(t) /\ FairStep
        \/ UpdateWrite(t) /\ FairStep
        \/ UpdateRecompute(t) /\ FairStep
        \/ Release(t) /\ FairStep

SpecSharedFair ==
    /\ Init
    /\ [][NextSharedFair]_vars
    /\ \A t \in Threads : WF_vars(Proceed(t)) /\ SF_vars(Acquire(t))

(***************************************************************************)
(* Helpers of the properties.                                              *)
(***************************************************************************)

\* s is a prefix of t.
IsPrefix(s, t) == Len(s) <= Len(t) /\ \A i \in 1..Len(s) : s[i] = t[i]

\* The identifiers some history entry sets to true.
UpdatedToTrue == {history[i][1] : i \in {j \in 1..Len(history) : history[j][2]}}

\* Some thread is inside a call on the guard.
CallInProgress == lock # NoThread /\ pc[lock] \in {"entered", "pushed", "written"}

\* The threads that hold the guard and are inside its scope.
Inside == {t \in Threads : pc[t] \in {"entered", "pushed", "written", "returned"}}

\* The value of the most recent entry of h for identifier k, FALSE when h has
\* none.
LastValue(h, k) ==
    LET at == {i \in 1..Len(h) : h[i][1] = k}
    IN  IF at = {} THEN FALSE
        ELSE h[CHOOSE i \in at : \A j \in at : j <= i][2]

\* Every history entry has its slot write: the slots hold what the history
\* says.
SlotsFollowHistory ==
    /\ \A i \in 1..Len(history) : history[i][1] \in DOMAIN slots
    /\ \A k \in DOMAIN slots : slots[k] = LastValue(history, k)

\* `activated` has been recomputed from the slots as they are.
ActivatedFollowsSlots ==
    activated <=> (DOMAIN slots # {} /\ \A k \in DOMAIN slots : slots[k])

\* The <<identifier, value>> pairs of the entries of h, in order.
Calls(h) == [i \in 1..Len(h) |-> <<h[i][1], h[i][2]>>]

\* The four panics of setup_slots, update_callback and can_activate.
DomainErrors == {"AlreadySetup", "NotSetup", "UnknownIdentifier", "NoSlotsDefined"}

\* The state of the instance's state machine that struct xt is in.
StateOf(xt) ==
    IF ~xt.is_setup THEN "Uninitialized"
    ELSE IF xt.activated THEN "SetupActivated"
    ELSE "SetupIdle"

\* The most recent call was update_callback.
IsUpdate == call.op = "update_callback"

\* The most recent call was setup_slots.
IsSetup == call.op = "setup_slots"

(***************************************************************************)
(* Properties.                                                             *)
(***************************************************************************)

\* C1: after setup_slots(S, false) with S non-empty on a fresh instance and
\* then only update_callback(id, true) calls, made by any threads in any
\* order through the lock, `activated` (seen whenever no call is in progress)
\* is false while some identifier of S has no update to true yet, and true
\* from the update that sets the last one.
C1_ActivatedAtLastTrue ==
    (~CallInProgress /\ only_true_updates /\ is_setup /\ DOMAIN slots # {})
        => (activated <=> DOMAIN slots \subseteq UpdatedToTrue)

C1_Witness ==
    /\ only_true_updates /\ activated
    /\ pc["t1"] = "idle" /\ pc["t2"] = "returned"
    /\ DOMAIN slots = {"a", "b"}
    /\ Len(history) = 2
    /\ ~pre.activated

\* C2: between calls, `activated` is true exactly when the slot table is
\* non-empty and every slot is true; it is false after new() and after every
\* setup_slots call that returned.
C2_ActivatedIsAnd ==
    /\ activated <=> (DOMAIN slots # {} /\ \A k \in DOMAIN slots : slots[k])
    /\ (call.op = "new" \/ (IsSetup /\ result = "Ok")) => ~activated

C2_Witness ==
    /\ IsUpdate /\ result = "Ok"
    /\ pre.activated /\ ~activated
    /\ Cardinality(DOMAIN slots) = 1

\* C3: setup_slots(S, false) on an instance that is set up fails with
\* AlreadySetup and leaves slots, history, is_setup and activated as they were.
C3_AlreadySetupUnmodified ==
    (IsSetup /\ ~call.force /\ pre.is_setup)
        => (result = "AlreadySetup" /\ Self = pre)

C3_Witness ==
    /\ IsSetup /\ ~call.force /\ call.slots = {"b"}
    /\ result = "AlreadySetup"
    /\ DOMAIN pre.slots = {"a"}
    /\ DOMAIN slots = {"a"}

\* C4: update_callback with an identifier that is no key of the slot table of
\* a set-up instance fails with UnknownIdentifier, appends no history entry,
\* creates no key and leaves every slot value and `activated` unchanged.
C4_UnknownIdentifierUnmodified ==
    (IsUpdate /\ pre.is_setup /\ call.identifier \notin DOMAIN pre.slots)
        => /\ result = "UnknownIdentifier"
           /\ history = pre.history
           /\ DOMAIN slots = DOMAIN pre.slots
           /\ slots = pre.slots
           /\ activated = pre.activated

C4_Witness ==
    /\ IsUpdate /\ call.identifier = "z" /\ call.value
    /\ result = "UnknownIdentifier"
    /\ DOMAIN slots = {"a"}
    /\ history = <<>>
    /\ ~activated

\* C5 as stated: on an instance set up with the empty set, every
\* update_callback call fails with NoSlotsDefined.
C5_Original ==
    (IsUpdate /\ pre.is_setup /\ DOMAIN pre.slots = {})
        => result = "NoSlotsDefined"

\* C5, amended: on an instance set up with the empty set, every
\* update_callback call fails with UnknownIdentifier and changes nothing; no
\* call ever fails with NoSlotsDefined.
C5_EmptySetupUnknownIdentifier ==
    /\ (IsUpdate /\ pre.is_setup /\ DOMAIN pre.slots = {})
           => (result = "UnknownIdentifier" /\ Self = pre)
    /\ result # "NoSlotsDefined"

C5_Witness ==
    /\ IsUpdate /\ pre.is_setup /\ DOMAIN pre.slots = {}
    /\ pre.history = <<>>
    /\ result = "UnknownIdentifier"

\* C6: update_callback on an instance that was never set up fails with
\* NotSetup and leaves it as new() made it.
C6_NotSetupUnmodified ==
    (IsUpdate /\ ~pre.is_setup)
        => (result = "NotSetup" /\ Self = pre /\ Self = new)

C6_Witness ==
    /\ IsUpdate /\ result = "NotSetup"
    /\ ~is_setup

\* C7: setup_slots(S2, true) returns in every state and leaves the history
\* empty, `activated` false, is_setup true and the slot table with exactly the
\* keys of S2, all false.
C7_ForcedSetupResets ==
    (IsSetup /\ call.force)
        => /\ result = "Ok"
           /\ history = <<>>
           /\ ~activated
           /\ is_setup
           /\ slots = [k \in call.slots |-> FALSE]

C7_Witness ==
    /\ IsSetup /\ call.force /\ result = "Ok"
    /\ pre.activated
    /\ Len(pre.history) = 2
    /\ "a" \in DOMAIN pre.slots
    /\ call.slots = {"b"}

\* C8: the history length equals the number of update_callback calls that
\* returned since the last setup_slots call that returned; an update_callback
\* call that fails appends nothing.
C8_HistoryCountsSuccesses ==
    /\ Len(history) = n_ok
    /\ (IsUpdate /\ result # "Ok") => Len(history) = Len(pre.history)
    /\ (IsUpdate /\ result = "Ok") => Len(history) = Len(pre.history) + 1

C8_Witness ==
    /\ IsUpdate /\ result = "UnknownIdentifier"
    /\ Len(history) = 1
    /\ n_ok = 1

\* C9 as stated: no operation removes or changes a history entry, so the
\* history before a call is a prefix of the history after it.
C9_Original == IsPrefix(pre.history, history)

\* C9, amended: update_callback and a failing setup_slots only ever extend the
\* history by at most one entry at its end; a setup_slots call that returns
\* leaves the history empty, which removes entries when it is forced on a
\* set-up instance.
C9_AppendOnlyUntilForcedSetup ==
    /\ ~(IsSetup /\ result = "Ok")
           => /\ IsPrefix(pre.history, history)
              /\ Len(history) <= Len(pre.history) + 1
    /\ (IsSetup /\ result = "Ok") => history = <<>>
    /\ (history # pre.history /\ ~IsPrefix(pre.history, history))
           => (IsSetup /\ call.force /\ pre.is_setup)

C9_Witness ==
    /\ IsUpdate /\ result = "Ok"
    /\ Len(pre.history) = 1
    /\ Len(history) = 2
    /\ history[1] = pre.history[1]
    /\ history[1] # history[2]

\* C10: update_callback(id, v) on a slot that already holds v returns, appends
\* one history entry (id, v, epoch) and leaves every slot value and `activated`
\* unchanged.
C10_SameValueUpdate ==
    (IsUpdate /\ pre.is_setup /\ call.identifier \in DOMAIN pre.slots
        /\ pre.slots[call.identifier] = call.value)
        => /\ result = "Ok"
           /\ Len(history) = Len(pre.history) + 1
           /\ IsPrefix(pre.history, history)
           /\ history[Len(history)][1] = call.identifier
           /\ history[Len(history)][2] = call.value
           /\ slots = pre.slots
           /\ activated = pre.activated

C10_Witness ==
    /\ IsUpdate /\ result = "Ok"
    /\ pre.slots = slots
    /\ activated /\ pre.activated
    /\ Len(history) = 2
    /\ history[1][1] = history[2][1]
    /\ history[1][2] = history[2][2]

\* C11: under the shared handle at most one thread is inside an operation,
\* and it is the one that holds the lock; a thread that has just acquired the
\* lock, and any state in which no thread is between the history push and the
\* recomputation, shows every history entry with its slot write and
\* `activated` recomputed.
C11_ExclusiveAndWhole ==
    /\ Cardinality(Inside) <= 1
    /\ \A t \in Inside : lock = t
    /\ (\A t \in Threads : pc[t] \notin {"pushed", "written"})
           => (SlotsFollowHistory /\ ActivatedFollowsSlots)

C11_Witness ==
    /\ pc["t1"] = "entered" /\ lock = "t1"
    /\ pc["t2"] = "idle"
    /\ call.op = "update_callback"
    /\ Len(history) = 1
    /\ activated
    /\ Cardinality(DOMAIN slots) = 1

\* C12: the history lists the update_callback calls that succeeded in the
\* order in which they took the lock (a call that holds the lock and has not
\* pushed yet is the one entry still missing).  When an update of a took the
\* lock before an update of b on slots {a, b} and both threads are done, the
\* history is a, then b, and `activated` is true.  When both threads wait for
\* the free lock, either may be the one that takes it.
C12_HistoryInLockOrder ==
    /\ acquired =
           IF \E t \in Threads : pc[t] = "entered" /\ call.op = "update_callback"
           THEN Append(Calls(history), <<call.identifier, call.value>>)
           ELSE Calls(history)
    /\ (/\ acquired = << <<"a", TRUE>>, <<"b", TRUE>> >>
        /\ DOMAIN slots = {"a", "b"}
        /\ \A t \in Threads : pc[t] = "idle")
           => /\ Len(history) = 2
              /\ history[1][1] = "a" /\ history[2][1] = "b"
              /\ activated
    /\ (/\ \A t \in Threads : pc[t] = "waiting"
        /\ lock = NoThread /\ ~poisoned
        /\ Len(history) < MaxHistory)
           => \A t \in Threads : ENABLED AcquireForUpdate(t)

C12_Witness ==
    /\ \A t \in Threads : pc[t] = "idle"
    /\ DOMAIN slots = {"a", "b"}
    /\ acquired = << <<"b", TRUE>>, <<"a", TRUE>> >>
    /\ Len(history) = 2
    /\ history[1][1] = "b" /\ history[2][1] = "a"
    /\ activated

C14_PoisonedAfterFailure ==
    /\ (\E t \in Threads : pc[t] = "panicked") => poisoned
    /\ poisoned
           => /\ lock = NoThread /\ Inside = {}
              /\ Self = pre
              /\ result \in DomainErrors \cup {"PoisonError"}
              /\ \A t \in Threads :
                     pc[t] = "waiting"
                         => /\ ENABLED AcquirePoisoned(t)
                            /\ ~ENABLED AcquireForSetup(t)
                            /\ ~ENABLED AcquireForUpdate(t)
    /\ result = "PoisonError" => poisoned
    /\ (result \in DomainErrors /\ ~CallInProgress) => poisoned
    /\ "PoisonError" \notin DomainErrors

C14_Witness ==
    /\ poisoned
    /\ \A t \in Threads : pc[t] = "panicked"
    /\ result = "PoisonError"
    /\ call.op = "update_callback" /\ call.identifier = "z"
    /\ Len(history) = 1
    /\ activated

\* C15: an update_callback call that fails has failed at one of its two
\* entry guards, not set up or unknown identifier, and has changed nothing;
\* the panics behind the history push (get_mut, can_activate) never happen;
\* a call that returns has pushed its entry, written its slot and recomputed
\* `activated`.
C15_NoPartialUpdate ==
    /\ (IsUpdate /\ result # "Ok")
           => /\ result \in {"NotSetup", "UnknownIdentifier"}
              /\ Self = pre
    /\ (IsUpdate /\ result = "NotSetup") => ~pre.is_setup
    /\ (IsUpdate /\ result = "UnknownIdentifier")
           => (pre.is_setup /\ call.identifier \notin DOMAIN pre.slots)
    /\ result \notin {"NoSlotsDefined", "SlotNotFound"}
    /\ (IsUpdate /\ result = "Ok")
           => /\ Len(history) = Len(pre.history) + 1
              /\ slots[call.identifier] = call.value
              /\ ActivatedFollowsSlots

C15_Witness ==
    /\ IsUpdate /\ result = "UnknownIdentifier"
    /\ call.identifier = "b"
    /\ DOMAIN slots = {"a"}
    /\ Len(history) = 1
    /\ activated

\* C16: the instance is Uninitialized (as new() made it), Setup-Idle or
\* Setup-Activated; a setup_slots call that returns ends in Setup-Idle; an
\* update_callback call that returns ends in Setup-Activated exactly when all
\* slots are true and in Setup-Idle otherwise; a failing call changes no
\* state; and a set-up instance stays set up.
C16_StateMachine ==
    /\ activated => is_setup
    /\ ~is_setup => Self = new
    /\ (IsSetup /\ result = "Ok") => StateOf(Self) = "SetupIdle"
    /\ (IsUpdate /\ result = "Ok")
           => StateOf(Self) = IF \A k \in DOMAIN slots : slots[k]
                              THEN "SetupActivated" ELSE "SetupIdle"
    /\ result # "Ok" => StateOf(Self) = StateOf(pre)
    /\ pre.is_setup => is_setup

C16_Witness ==
    /\ IsUpdate /\ result = "Ok"
    /\ StateOf(pre) = "SetupActivated"
    /\ StateOf(Self) = "SetupIdle"
    /\ DOMAIN slots = {"a"}
    /\ Len(history) = 2
    /\ history[1][2] /\ ~history[2][2]

\* C17: setup_slots with the empty set, on a fresh instance or forced, returns
\* without error and leaves the instance set up with an empty slot table; on
\* such an instance every update_callback call and every unforced setup_slots
\* call fails and changes nothing, so `activated` stays false until a forced
\* setup_slots call.
C17_EmptySetupNeverActivates ==
    /\ (IsSetup /\ call.slots = {} /\ (call.force \/ ~pre.is_setup))
           => /\ result = "Ok"
              /\ is_setup /\ DOMAIN slots = {}
              /\ ~activated
    /\ (pre.is_setup /\ DOMAIN pre.slots = {} /\ ~(IsSetup /\ call.force))
           => /\ result \in {"AlreadySetup", "UnknownIdentifier"}
              /\ Self = pre
    /\ (is_setup /\ DOMAIN slots = {}) => ~activated

C17_Witness ==
    /\ pre.is_setup /\ DOMAIN pre.slots = {}
    /\ IsSetup /\ ~call.force /\ call.slots = {"a"}
    /\ result = "AlreadySetup"
    /\ is_setup /\ DOMAIN slots = {}
    /\ ~activated

\* C18: the key set of the slot table is the set passed to the last
\* setup_slots call that returned (empty before any); update_callback never
\* changes it, and a call that returns changes the value of its own slot
\* only, leaving the other slots and is_setup as they were; setup_slots
\* appends no history entry.
C18_KeysOnlyFromSetup ==
    /\ DOMAIN slots = registered
    /\ IsUpdate => DOMAIN slots = DOMAIN pre.slots
    /\ (IsUpdate /\ result = "Ok")
           => /\ slots[call.identifier] = call.value
              /\ \A k \in DOMAIN slots \ {call.identifier} : slots[k] = pre.slots[k]
              /\ is_setup = pre.is_setup
    /\ IsSetup => IsPrefix(history, pre.history)

C18_Witness ==
    /\ IsUpdate /\ result = "Ok"
    /\ registered = {"a", "b"}
    /\ call.identifier = "a" /\ call.value
    /\ pre.slots["b"] /\ slots["b"]
    /\ ~pre.slots["a"] /\ slots["a"]

\* C19: between calls every identifier in the history is a key of the slot
\* table, every slot holds the value of the most recent history entry for its
\* identifier, or false when there is none, and `activated` is what the key
\* set and the history alone give: some key, and every key's most recent
\* entry true.
C19_HistoryAgreesWithSlots ==
    /\ SlotsFollowHistory
    /\ activated <=> (DOMAIN slots # {}
                      /\ \A k \in DOMAIN slots : LastValue(history, k))

C19_Witness ==
    /\ DOMAIN slots = {"a", "b"}
    /\ Len(history) = 2
    /\ history[1][1] = "a" /\ history[1][2]
    /\ history[2][1] = "a" /\ ~history[2][2]
    /\ ~slots["a"] /\ ~slots["b"]
    /\ ~activated

\* C20: provided no read of the wall clock returned less than the read before
\* it, the timestamps of the history entries are non-decreasing in append
\* order, whatever the interleaving of the threads sharing the handle.
C20_TimestampsNonDecreasing ==
    clock_monotone =>
        \A i, j \in 1..Len(history) : i <= j => history[i][3] <= history[j][3]

\* Two entries appended through the shared handle while the clock moved
\* forward between them.
C20_Witness ==
    /\ clock_monotone
    /\ Len(history) = 2
    /\ history[1][3] = 0
    /\ history[2][3] = 1
    /\ Len(acquired) = 2
    /\ lock = NoThread

====
